---------------------------- MODULE Spec2Model ----------------------------
(***************************************************************************)
(* A model of scripts/spectral-report.mjs, the lint-report wrapper of      *)
(* lousy-api-eval: it locates OpenAPI specification files, runs the        *)
(* Spectral linter on each of them as a subprocess, groups the findings by *)
(* rule and prints one JSON report.                                        *)
(*                                                                         *)
(* src/scripts/spectral-report.mjs holds the script twice: lines 1-131     *)
(* (copy 1) and lines 132-283 (copy 2).  The two copies differ in          *)
(* lintSpec, processEntry, the line and the severity label of a location,  *)
(* the root the paths are resolved against and the exit status of a run    *)
(* without specs.  Both are code of the repository, so the variable        *)
(* `copy` says which of the two is running and every operator that differs *)
(* between them takes the copy as its first parameter.                     *)
(*                                                                         *)
(* Inputs the model assumes: the linter's JSON list holds Finding-shaped   *)
(* records (code, severity 0..3, path, message, optional range.start.line) *)
(* and no rule identifier is the name of a property every JavaScript       *)
(* object inherits (constructor, toString, ...).                           *)
(***************************************************************************)
EXTENDS Integers, Sequences, FiniteSets, TLC

VARIABLES
    copy,        \* 1 or 2: which copy of the script runs
    args,        \* process.argv.slice(2): the explicit path arguments
    fsys,        \* the directory graph below the start directory
    pc,          \* position of the script: "start", "located", "exited";
                 \* of a single call: "summarize", "find"/"found", "isSpecFile"
    specs,       \* const specs
    results,     \* the FileReports specs.map has produced so far
    linted,      \* the spec paths handed to the linter so far, in order
    outcome,     \* what the subprocess did on the latest invocation
    stdout,      \* what console.log has written
    stderr,      \* what console.error / the uncaught-error handler has written
    exitCode,    \* the process exit status, Running until the process exits
    violations,  \* input of summarize (specification SpecSummarize)
    report,      \* result of summarize (specification SpecSummarize)
    basename,    \* input of isSpecFile (specification SpecIsSpecFile)
    accepted,    \* result of isSpecFile (specification SpecIsSpecFile)
    reads        \* the directories readdirSync has been called on, in order

vars == <<copy, args, fsys, pc, specs, results, linted, outcome,
          stdout, stderr, exitCode, violations, report, basename, accepted,
          reads>>

runVars == <<args, fsys, pc, specs, results, linted, outcome,
             stdout, stderr, exitCode, reads>>

Copies == {1, 2}

-----------------------------------------------------------------------------
(* Bounds *)

\* longest finding sequence over the whole pool of findings
MaxShort == 4
\* longest finding sequence over the narrow pool (more than 5 per rule)
MaxLong == 7
\* longest list of explicit path arguments
MaxArgs == 2

-----------------------------------------------------------------------------
(* Values *)

\* the process exit status
Running == [exited |-> FALSE]
Exited(status) == [exited |-> TRUE, status |-> status]

NoReport == [computed |-> FALSE]

\* JavaScript values of a line: a number, undefined (range, range.start or
\* range.start.line missing in the finding), null, NaN
Num(n) == [type |-> "number", value |-> n]
Undefined == [type |-> "undefined"]
Null == [type |-> "null"]
NaN == [type |-> "NaN"]

\* slice(0, 5) and length > 5 / length - 5
LocationCap == 5

-----------------------------------------------------------------------------
(* Findings: what the linter prints, one record per violation *)

Finding(code, severity, path, line, message) ==
    [code |-> code, severity |-> severity, path |-> path, line |-> line,
     message |-> message]

\* The whole pool: four severities, two rules of equal severity, one rule that
\* occurs with two severities, one rule identifier that looks like an integer.
FindingPool ==
    { Finding("operation-operationId", 0, <<"paths", "/quotes", "get">>, Num(11),
              "Operation must have operationId."),
      Finding("operation-tags", 1, <<"paths", "/quotes", "post">>, Num(0),
              "Operation must have non-empty tags array."),
      Finding("operation-tags", 0, <<"paths", "/vehicles">>, Undefined,
              "Operation must have non-empty tags array."),
      Finding("404", 1, <<>>, Num(3), "Response 404 must be documented."),
      Finding("info-contact", 2, <<"info">>, Num(1),
              "Info object must have contact object."),
      Finding("oas3-unused-component", 3, <<"components", "schemas", "Quote">>,
              Undefined, "Potentially unused component has been detected.") }

\* The narrow pool, for sequences long enough to pass the cap of 5 locations:
\* two rules, one of them with two findings that differ in severity, path and
\* line.
NarrowPool ==
    { f \in FindingPool : f.code = "operation-operationId" \/ f.code = "operation-tags" }

SeqsUpTo(S, n) == UNION { [1..k -> S] : k \in 0..n }

\* The finding sequences summarize is applied to.
SummarizeInputs == SeqsUpTo(FindingPool, MaxShort) \cup SeqsUpTo(NarrowPool, MaxLong)

-----------------------------------------------------------------------------
(* summarize *)

\* Array.prototype.join
RECURSIVE Join(_, _)
Join(segments, sep) ==
    IF segments = <<>> THEN ""
    ELSE IF Len(segments) = 1 THEN Head(segments)
    ELSE Head(segments) \o sep \o Join(Tail(segments), sep)

\* LocationLine with the line of the linter as it is, counted from 0
LocationLineZeroBased(c, v) ==
    IF v.line.type = "number" THEN Num(v.line.value)
    ELSE IF c = 2 THEN Null ELSE NaN

\* line: of a location.  Copy 2 tests typeof ... === "number"; copy 1 adds 1
\* to whatever v.range?.start?.line is, and undefined + 1 is NaN.
LocationLine(c, v) ==
    IF v.line.type = "number" THEN Num(v.line.value + 1)
    ELSE IF c = 2 THEN Null ELSE NaN

Location(c, v) ==
    [path |-> Join(v.path, "."), line |-> LocationLine(c, v), message |-> v.message]

\* byRule is a JavaScript object: here the sequence of its own properties in the
\* order they were created, each with its key.
KeyIndex(byRule, key) ==
    IF \E i \in 1..Len(byRule) : byRule[i].key = key
    THEN CHOOSE i \in 1..Len(byRule) : byRule[i].key = key
    ELSE 0

\* GroupStep with count++ moved into the branch that creates the group
GroupStepCountOnCreate(c, byRule, v) ==
    LET fresh == KeyIndex(byRule, v.code) = 0
        created == IF fresh
                   THEN Append(byRule, [key |-> v.code, count |-> 1,
                                        severity |-> v.severity, locations |-> <<>>])
                   ELSE byRule
        i == KeyIndex(created, v.code)
    IN  [created EXCEPT ![i].locations = Append(@, Location(c, v))]

\* One turn of the loop `for (const v of violations)`.
GroupStep(c, byRule, v) ==
    LET created == IF KeyIndex(byRule, v.code) = 0
                   THEN Append(byRule, [key |-> v.code, count |-> 0,
                                        severity |-> v.severity, locations |-> <<>>])
                   ELSE byRule
        i == KeyIndex(created, v.code)
    IN  [created EXCEPT ![i].count = @ + 1,
                        ![i].locations = Append(@, Location(c, v))]

RECURSIVE GroupByRule(_, _, _)
GroupByRule(c, byRule, vs) ==
    IF vs = <<>> THEN byRule
    ELSE GroupByRule(c, GroupStep(c, byRule, Head(vs)), Tail(vs))

Digits == <<"0", "1", "2", "3", "4", "5", "6", "7", "8", "9">>

DigitValue(ch) == (CHOOSE d \in 1..10 : Digits[d] = ch) - 1

IsDigit(ch) == \E d \in 1..10 : Digits[d] = ch

\* A property key is an integer index when it is the canonical decimal form of
\* an integer (the pool's identifiers are far below the 2^32 - 2 limit).
IsIntegerKey(key) ==
    /\ Len(key) > 0
    /\ \A i \in 1..Len(key) : IsDigit(SubSeq(key, i, i))
    /\ (Len(key) > 1 => SubSeq(key, 1, 1) # "0")

RECURSIVE KeyNumber(_)
KeyNumber(key) ==
    IF Len(key) = 0 THEN 0
    ELSE 10 * KeyNumber(SubSeq(key, 1, Len(key) - 1))
         + DigitValue(SubSeq(key, Len(key), Len(key)))

RECURSIVE SelectOrdered(_, _)
\* the entries of `entries` whose keys are integer keys, by ascending number
SelectOrdered(entries, taken) ==
    LET left == { i \in 1..Len(entries) :
                    IsIntegerKey(entries[i].key) /\ i \notin taken }
    IN  IF left = {} THEN <<>>
        ELSE LET m == CHOOSE i \in left :
                        \A j \in left : KeyNumber(entries[i].key) <= KeyNumber(entries[j].key)
             IN  <<entries[m]>> \o SelectOrdered(entries, taken \cup {m})

\* Object.entries: integer keys first, in ascending numeric order, then the
\* string keys in the order they were created.
ObjectEntries(byRule) ==
    SelectOrdered(byRule, {})
    \o SelectSeq(byRule, LAMBDA e : ~IsIntegerKey(e.key))

\* Compare with the operands of the count difference exchanged
CompareCountAscending(a, b) ==
    IF a.severity - b.severity # 0 THEN a.severity - b.severity
    ELSE a.count - b.count

\* the comparator handed to sort
Compare(a, b) ==
    IF a.severity - b.severity # 0 THEN a.severity - b.severity
    ELSE b.count - a.count

\* x placed after every element that does not compare greater than it
InsertSorted(sorted, x) ==
    LET after == { i \in 1..Len(sorted) : Compare(sorted[i], x) > 0 }
        k == IF after = {} THEN Len(sorted) + 1
             ELSE CHOOSE i \in after : \A j \in after : i <= j
    IN  SubSeq(sorted, 1, k - 1) \o <<x>> \o SubSeq(sorted, k, Len(sorted))

RECURSIVE SortFrom(_, _)
SortFrom(sorted, rest) ==
    IF rest = <<>> THEN sorted
    ELSE SortFrom(InsertSorted(sorted, Head(rest)), Tail(rest))

\* Array.prototype.sort with the comparator above: a stable sort
SortEntries(entries) == SortFrom(<<>>, entries)

SEVERITY_LABELS == [s \in 0..3 |-> <<"error", "warning", "info", "hint">>[s + 1]]

SeverityLabel(c, severity) ==
    IF c = 2
    THEN IF severity \in DOMAIN SEVERITY_LABELS THEN SEVERITY_LABELS[severity]
         ELSE "unknown"
    ELSE IF severity = 0 THEN "error" ELSE "warning"

\* `${data.locations.length - 5} more`
TruncatedText(n) == ToString(n - LocationCap) \o " more"

\* RuleGroup with slice(-5) in place of slice(0, 5)
RuleGroupLastFive(c, data) ==
    LET n == Len(data.locations)
        shown == SubSeq(data.locations, IF n > LocationCap THEN n - LocationCap + 1 ELSE 1, n)
    IN  IF n > LocationCap
        THEN [rule |-> data.key, severity |-> SeverityLabel(c, data.severity),
              count |-> data.count, locations |-> shown,
              truncated |-> TruncatedText(n)]
        ELSE [rule |-> data.key, severity |-> SeverityLabel(c, data.severity),
              count |-> data.count, locations |-> shown]

\* RuleGroup with `>= 5` in place of `> 5`
RuleGroupTruncatedAtCap(c, data) ==
    LET n == Len(data.locations)
        shown == SubSeq(data.locations, 1, IF n < LocationCap THEN n ELSE LocationCap)
    IN  IF n >= LocationCap
        THEN [rule |-> data.key, severity |-> SeverityLabel(c, data.severity),
              count |-> data.count, locations |-> shown,
              truncated |-> TruncatedText(n)]
        ELSE [rule |-> data.key, severity |-> SeverityLabel(c, data.severity),
              count |-> data.count, locations |-> shown]

\* the callback of .map(([rule, data]) => ...)
RuleGroup(c, data) ==
    LET base == [rule |-> data.key,
                 severity |-> SeverityLabel(c, data.severity),
                 count |-> data.count,
                 locations |-> SubSeq(data.locations, 1,
                     IF Len(data.locations) < LocationCap THEN Len(data.locations)
                     ELSE LocationCap)]
    IN  IF Len(data.locations) > LocationCap
        THEN [rule |-> base.rule, severity |-> base.severity, count |-> base.count,
              locations |-> base.locations,
              truncated |-> TruncatedText(Len(data.locations))]
        ELSE base

\* CountErrors with `<= 1` in place of `=== 0`
CountErrorsAndWarnings(vs) == Len(SelectSeq(vs, LAMBDA v : v.severity <= 1))

CountErrors(vs) == Len(SelectSeq(vs, LAMBDA v : v.severity = 0))

\* CountWarnings with `>= 1` in place of `=== 1`
CountWarningsAndBelow(vs) == Len(SelectSeq(vs, LAMBDA v : v.severity >= 1))

CountWarnings(vs) == Len(SelectSeq(vs, LAMBDA v : v.severity = 1))

RuleBreakdown(c, vs) ==
    LET sorted == SortEntries(ObjectEntries(GroupByRule(c, <<>>, vs)))
    IN  [i \in 1..Len(sorted) |-> RuleGroup(c, sorted[i])]

\* summarize with spec: basename(specPath) in place of spec: specPath
summarizeBaseName(c, specPath, vs) ==
    [spec |-> <<specPath[Len(specPath)]>>,
     pass |-> CountErrors(vs) = 0,
     counts |-> [errors |-> CountErrors(vs), warnings |-> CountWarnings(vs),
                 total |-> Len(vs)],
     ruleBreakdown |-> RuleBreakdown(c, vs)]

summarize(c, specPath, vs) ==
    [spec |-> specPath,
     pass |-> CountErrors(vs) = 0,
     counts |-> [errors |-> CountErrors(vs), warnings |-> CountWarnings(vs),
                 total |-> Len(vs)],
     ruleBreakdown |-> RuleBreakdown(c, vs)]

-----------------------------------------------------------------------------
(* The linter subprocess and lintSpec *)

\* What a subprocess wrote to its standard output: nothing, text that is not
\* JSON, or the JSON text of a value.
EmptyText == [kind |-> "empty"]
GarbageText == [kind |-> "text"]
JsonText(value) == [kind |-> "json", value |-> value]

\* JSON values: an array of findings, or a value that is no array, such as {}
JsonArray(items) == [array |-> TRUE, items |-> items]
JsonObject == [array |-> FALSE]

\* the JSON lists the linter prints in the runs of the script
LintLists ==
    { <<>>,
      <<Finding("operation-tags", 1, <<"paths", "/quotes", "post">>, Num(0),
                "Operation must have non-empty tags array.")>>,
      <<Finding("operation-operationId", 0, <<"paths", "/quotes", "get">>, Num(11),
                "Operation must have operationId."),
        Finding("info-contact", 2, <<"info">>, Num(1),
                "Info object must have contact object.")>>,
      <<Finding("operation-tags", 1, <<"paths", "/quotes", "post">>, Num(0),
                "Operation must have non-empty tags array."),
        Finding("oas3-unused-component", 3, <<"components", "schemas", "Quote">>,
                Undefined, "Potentially unused component has been detected.")>> }

OutputTexts ==
    {EmptyText, GarbageText, JsonText(JsonObject)}
    \cup { JsonText(JsonArray(l)) : l \in LintLists }

\* What one invocation of the linter does: it cannot be started (ENOENT, EACCES),
\* or it runs, writes `out` and ends with `status`.
NotSpawned == [spawned |-> FALSE, status |-> -1, out |-> EmptyText]

Outcomes ==
    {NotSpawned}
    \cup { [spawned |-> TRUE, status |-> st, out |-> t] : st \in {0, 1}, t \in OutputTexts }

Return(value) == [thrown |-> FALSE, value |-> value]
Throw(err) == [thrown |-> TRUE, err |-> err]

\* JSON.parse
JsonParse(text) ==
    IF text.kind = "json" THEN Return(text.value) ELSE Throw([name |-> "SyntaxError"])

\* execFileSync with encoding utf-8: returns the standard output of a subprocess
\* that ended with status 0; throws the spawn error (stdout: null) when the
\* subprocess could not be started, and an error carrying stdout otherwise.
ExecFileSync(o) ==
    IF ~o.spawned THEN Throw([name |-> "Error", stdout |-> [kind |-> "null"]])
    ELSE IF o.status # 0 THEN Throw([name |-> "Error", stdout |-> o.out])
    ELSE Return(o.out)

\* `"stdout" in err && err.stdout` (copy 2), `err.stdout` (copy 1)
HasStdout(err) ==
    /\ "stdout" \in DOMAIN err
    /\ err.stdout.kind # "null"
    /\ err.stdout.kind # "empty"

\* the catch block of lintSpec
LintCatch(c, err) ==
    IF HasStdout(err) /\ ~JsonParse(err.stdout).thrown
    THEN JsonParse(err.stdout)
    ELSE IF c = 2 THEN Throw(err) ELSE Return(JsonArray(<<>>))

\* lintSpec with a catch block that rethrows whatever the subprocess printed
lintSpecFailOnStatus(c, o) ==
    LET run == ExecFileSync(o)
    IN  IF run.thrown THEN Throw(run.err)
        ELSE LET parsed == JsonParse(IF run.value = EmptyText THEN JsonText(JsonArray(<<>>))
                                     ELSE run.value)
             IN  IF parsed.thrown THEN LintCatch(c, parsed.err) ELSE parsed

lintSpec(c, o) ==
    LET run == ExecFileSync(o)
    IN  IF run.thrown THEN LintCatch(c, run.err)
        ELSE LET parsed == JsonParse(IF run.value = EmptyText THEN JsonText(JsonArray(<<>>))
                                     ELSE run.value)
             IN  IF parsed.thrown THEN LintCatch(c, parsed.err) ELSE parsed

-----------------------------------------------------------------------------
(* The file system and findSpecs *)

\* the default of the parameter depth of findSpecs
DefaultDepth == 3

EndsWith(s, suffix) ==
    /\ Len(s) >= Len(suffix)
    /\ SubSeq(s, Len(s) - Len(suffix) + 1, Len(s)) = suffix

StartsWith(s, prefix) ==
    /\ Len(s) >= Len(prefix)
    /\ SubSeq(s, 1, Len(prefix)) = prefix

\* isSpecFile with the patterns unanchored on the left: /openapi\.ya?ml$/, ...
isSpecFileUnanchored(filename) ==
    \/ EndsWith(filename, "openapi.yaml") \/ EndsWith(filename, "openapi.yml")
    \/ EndsWith(filename, "openapi.json")

\* SPEC_PATTERNS.some((p) => p.test(filename))
isSpecFile(filename) ==
    \/ EndsWith(filename, ".openapi.yaml") \/ EndsWith(filename, ".openapi.yml")
    \/ EndsWith(filename, ".openapi.json")
    \/ filename = "openapi.yaml" \/ filename = "openapi.yml"
    \/ filename = "openapi.json"

\* A directory graph: node 1 is the start directory; a node has the kind statSync
\* reports for it ("file", "dir", "other"), or "broken" when statSync throws;
\* `readable` says whether readdirSync succeeds on it, `entries` what it yields.
Node(kind, readable, entries) ==
    [kind |-> kind, readable |-> readable, entries |-> entries]

Entry(name, node) == [name |-> name, node |-> node]

FileNode == Node("file", FALSE, <<>>)

\* The directory graphs: the root (readable or not, r1) holds a hidden
\* directory, node_modules, a hidden file named like a candidate, a candidate
\* `openapi.yaml` of kind k4 and a directory `docs` of readability d5 (either
\* may be missing); docs holds a candidate of kind k9, its own node_modules and
\* a directory `deep` (readable or not, r10), which holds a candidate, a link
\* back to the root and a directory `v2`, the fourth level.
Graph(k4, d5, r1, k9, r10) ==
    LET rootEntries ==
            <<Entry(".github", 2), Entry("node_modules", 3),
              Entry(".openapi.yaml", 14)>>
            \o (IF k4 = "none" THEN <<>> ELSE <<Entry("openapi.yaml", 4)>>)
            \o (IF d5 = "none" THEN <<>> ELSE <<Entry("docs", 5)>>)
            \o <<Entry("README.md", 6)>>
    IN  <<Node("dir", r1, rootEntries),
          Node("dir", TRUE, <<Entry("openapi.yaml", 7)>>),
          Node("dir", TRUE, <<Entry("pkg.openapi.json", 8)>>),
          Node(IF k4 = "none" THEN "file" ELSE k4, FALSE, <<>>),
          Node("dir", d5 # "unreadable",
               <<Entry("node_modules", 15), Entry("api.openapi.json", 9),
                 Entry("deep", 10)>>),
          FileNode,
          FileNode,
          FileNode,
          Node(k9, FALSE, <<>>),
          Node("dir", r10, <<Entry("openapi.yml", 11), Entry("loop", 1),
                             Entry("v2", 12)>>),
          FileNode,
          Node("dir", TRUE, <<Entry("openapi.json", 13)>>),
          FileNode,
          FileNode,
          Node("dir", TRUE, <<Entry("openapi.json", 16)>>),
          FileNode>>

\* the graphs of the runs: only the root's candidate and docs vary
Tree(k4, d5) == Graph(k4, d5, TRUE, "file", TRUE)

Trees == { Tree(k4, d5) : k4 \in {"file", "broken", "none"},
                          d5 \in {"dir", "unreadable", "none"} }

\* a graph with one more entry in the root: `self`, a link to the root itself
WithSelfLink(g) == [g EXCEPT ![1].entries = Append(@, Entry("self", 1))]

\* the graphs findSpecs is explored on, each without and with the self link
FindTrees ==
    LET graphs == { Graph(k4, d5, r1, k9, r10) : k4 \in {"file", "broken", "none"},
                                                 d5 \in {"dir", "unreadable", "none"},
                                                 r1 \in BOOLEAN,
                                                 k9 \in {"file", "broken"},
                                                 r10 \in BOOLEAN }
    IN  graphs \cup { WithSelfLink(g) : g \in graphs }

\* The recursion findSpecs -> processEntry -> findSpecs, as the function of
\* (node, depth) it computes; the result of a call is [thrown, value], the
\* value being the paths found (relative to the start directory).
RECURSIVE findSpecs(_, _, _, _, _)
RECURSIVE FlatMapEntries(_, _, _, _, _, _)

\* processEntry with the name test applied to directories only
processEntrySkipDirsOnly(c, fs, dir, entry, depth) ==
    LET full == Append(dir, entry.name)
        stat == fs[entry.node]
    IN  IF stat.kind = "broken"
        THEN IF c = 2 THEN Return(<<>>) ELSE Throw([name |-> "Error"])
        ELSE IF stat.kind = "file" /\ isSpecFile(entry.name) THEN Return(<<full>>)
        ELSE IF stat.kind = "dir"
             THEN IF StartsWith(entry.name, ".") \/ entry.name = "node_modules"
                  THEN Return(<<>>)
                  ELSE Return(findSpecs(c, fs, full, entry.node, depth - 1))
        ELSE Return(<<>>)

processEntry(c, fs, dir, entry, depth) ==
    IF StartsWith(entry.name, ".") \/ entry.name = "node_modules" THEN Return(<<>>)
    ELSE LET full == Append(dir, entry.name)
             stat == fs[entry.node]
         IN  IF stat.kind = "broken"
             THEN IF c = 2 THEN Return(<<>>) ELSE Throw([name |-> "Error"])
             ELSE IF stat.kind = "file" /\ isSpecFile(entry.name) THEN Return(<<full>>)
             ELSE IF stat.kind = "dir"
                  THEN Return(findSpecs(c, fs, full, entry.node, depth - 1))
             ELSE Return(<<>>)

\* readdirSync(dir).flatMap(...) from entry i on; a throw of the callback ends it
FlatMapEntries(c, fs, dir, node, depth, i) ==
    IF i > Len(fs[node].entries) THEN Return(<<>>)
    ELSE LET one == processEntry(c, fs, dir, fs[node].entries[i], depth)
         IN  IF one.thrown THEN one
             ELSE LET rest == FlatMapEntries(c, fs, dir, node, depth, i + 1)
                  IN  IF rest.thrown THEN rest ELSE Return(one.value \o rest.value)

\* findSpecs with `depth < 0` in place of `depth === 0`
findSpecsDepthBelowZero(c, fs, dir, node, depth) ==
    IF depth < 0 THEN <<>>
    ELSE IF ~fs[node].readable THEN <<>>
    ELSE LET found == FlatMapEntries(c, fs, dir, node, depth, 1)
         IN  IF found.thrown THEN <<>> ELSE found.value

findSpecs(c, fs, dir, node, depth) ==
    IF depth = 0 THEN <<>>
    ELSE IF ~fs[node].readable THEN <<>>
    ELSE LET found == FlatMapEntries(c, fs, dir, node, depth, 1)
         IN  IF found.thrown THEN <<>> ELSE found.value

\* The same recursion, as the directories it calls readdirSync on, in order:
\* a call is [thrown, reads], the reads made until it returned or threw.
RECURSIVE findSpecsReads(_, _, _, _, _)
RECURSIVE FlatMapReads(_, _, _, _, _, _)

processEntryReads(c, fs, dir, entry, depth) ==
    IF StartsWith(entry.name, ".") \/ entry.name = "node_modules"
    THEN [thrown |-> FALSE, reads |-> <<>>]
    ELSE LET full == Append(dir, entry.name)
             stat == fs[entry.node]
         IN  IF stat.kind = "broken" THEN [thrown |-> c # 2, reads |-> <<>>]
             ELSE IF stat.kind = "file" /\ isSpecFile(entry.name)
                  THEN [thrown |-> FALSE, reads |-> <<>>]
             ELSE IF stat.kind = "dir"
                  THEN [thrown |-> FALSE,
                        reads |-> findSpecsReads(c, fs, full, entry.node, depth - 1)]
             ELSE [thrown |-> FALSE, reads |-> <<>>]

FlatMapReads(c, fs, dir, node, depth, i) ==
    IF i > Len(fs[node].entries) THEN [thrown |-> FALSE, reads |-> <<>>]
    ELSE LET one == processEntryReads(c, fs, dir, fs[node].entries[i], depth)
         IN  IF one.thrown THEN one
             ELSE LET rest == FlatMapReads(c, fs, dir, node, depth, i + 1)
                  IN  [thrown |-> rest.thrown, reads |-> one.reads \o rest.reads]

\* findSpecsReads with `depth < 0` in place of `depth === 0`
findSpecsReadsDepthBelowZero(c, fs, dir, node, depth) ==
    IF depth < 0 THEN <<>>
    ELSE IF ~fs[node].readable THEN <<dir>>
    ELSE <<dir>> \o FlatMapReads(c, fs, dir, node, depth, 1).reads

\* readdirSync(dir) is called unless depth is 0, and may throw at once
findSpecsReads(c, fs, dir, node, depth) ==
    IF depth = 0 THEN <<>>
    ELSE IF ~fs[node].readable THEN <<dir>>
    ELSE <<dir>> \o FlatMapReads(c, fs, dir, node, depth, 1).reads

-----------------------------------------------------------------------------
(* Paths *)

\* Paths are sequences of segments; an absolute path starts with "/".
REPO_ROOT == <<"/", "repo">>

\* process.cwd(), the directory copy 1 resolves against and starts from
Cwd == <<"/", "work">>

IsAbsolute(path) == Len(path) > 0 /\ Head(path) = "/"

RECURSIVE Normalize(_, _)
\* path.normalize over the segments: "." is dropped, ".." removes a segment
Normalize(done, rest) ==
    IF rest = <<>> THEN done
    ELSE IF Head(rest) = "." THEN Normalize(done, Tail(rest))
    ELSE IF Head(rest) = ".."
         THEN Normalize(IF Len(done) > 1 THEN SubSeq(done, 1, Len(done) - 1) ELSE done,
                        Tail(rest))
    ELSE Normalize(Append(done, Head(rest)), Tail(rest))

\* path.resolve(base, a), base absolute
Resolve(base, a) ==
    IF IsAbsolute(a) THEN Normalize(<<"/">>, Tail(a)) ELSE Normalize(base, a)

\* resolve(REPO_ROOT, a) in copy 2, resolve(a) in copy 1
ResolveArg(c, a) == Resolve(IF c = 2 THEN REPO_ROOT ELSE Cwd, a)

\* findSpecs(REPO_ROOT) in copy 2; findSpecs(".") in copy 1, where join(".", x) = x
StartDir(c) == IF c = 2 THEN REPO_ROOT ELSE <<>>

ArgPool ==
    { <<"openapi.yaml">>,
      <<"specs", "..", "quotes.openapi.json">>,
      <<"/", "tmp", "petstore.yaml">> }

ArgLists == SeqsUpTo(ArgPool, MaxArgs)

-----------------------------------------------------------------------------
(* The script: specification Spec *)

NoOutcome == [invoked |-> FALSE]

\* const specs = args.length > 0 ? args.map(resolve) : findSpecs(root)
LocateSpecs(c, as, fs) ==
    IF Len(as) > 0 THEN [i \in 1..Len(as) |-> ResolveArg(c, as[i])]
    ELSE findSpecs(c, fs, StartDir(c), 1, DefaultDepth)

\* the directories read for const specs: none when paths are given
LocateReads(c, as, fs) ==
    IF Len(as) > 0 THEN <<>>
    ELSE findSpecsReads(c, fs, StartDir(c), 1, DefaultDepth)

\* process.exit(0) in copy 2, process.exit(1) in copy 1
NoSpecsStatus(c) == IF c = 2 THEN 0 ELSE 1

\* JSON.stringify writes NaN as null
StringifyLine(line) == IF line.type = "NaN" THEN Null ELSE line

StringifyGroup(g) ==
    [g EXCEPT !.locations =
        [j \in 1..Len(g.locations) |->
            [g.locations[j] EXCEPT !.line = StringifyLine(@)]]]

StringifyReport(r) ==
    [r EXCEPT !.ruleBreakdown =
        [i \in 1..Len(r.ruleBreakdown) |-> StringifyGroup(r.ruleBreakdown[i])]]

\* Document with results.some in place of results.every
DocumentSomePass(rs) ==
    [allPass |-> \E i \in 1..Len(rs) : rs[i].pass,
     results |-> [i \in 1..Len(rs) |-> StringifyReport(rs[i])]]

\* the document console.log(JSON.stringify({ allPass, results }, null, 2)) writes
Document(rs) ==
    [allPass |-> \A i \in 1..Len(rs) : rs[i].pass,
     results |-> [i \in 1..Len(rs) |-> StringifyReport(rs[i])]]

\* VerdictStatus with process.exit(0) whatever the verdict
VerdictStatusZero(allPass) == 0

\* process.exit(allPass ? 0 : 1)
VerdictStatus(allPass) == IF allPass THEN 0 ELSE 1

\* An error nothing catches: node prints it to the error channel and the
\* process ends with status 1.
UncaughtStatus == 1

Init ==
    /\ copy \in Copies
    /\ args \in ArgLists
    /\ fsys \in Trees
    /\ pc = "start"
    /\ specs = <<>>
    /\ results = <<>>
    /\ linted = <<>>
    /\ outcome = NoOutcome
    /\ stdout = <<>>
    /\ stderr = <<>>
    /\ exitCode = Running
    /\ violations = <<>>
    /\ report = NoReport
    /\ basename = ""
    /\ accepted = NoReport
    /\ reads = <<>>

\* const args = ...; const specs = ...
Locate ==
    /\ pc = "start"
    /\ specs' = LocateSpecs(copy, args, fsys)
    /\ reads' = LocateReads(copy, args, fsys)
    /\ pc' = "located"
    /\ UNCHANGED <<copy, args, fsys, results, linted, outcome, stdout, stderr,
                   exitCode, violations, report, basename, accepted>>

\* NoSpecs with console.log in place of console.error
NoSpecsOnStdout ==
    /\ pc = "located"
    /\ Len(specs) = 0
    /\ stdout' = Append(stdout, "no-specs")
    /\ exitCode' = Exited(NoSpecsStatus(copy))
    /\ pc' = "exited"
    /\ UNCHANGED <<copy, args, fsys, specs, results, linted, outcome, stderr,
                   violations, report,
                   basename, accepted, reads>>

\* if (specs.length === 0) { console.error(...); process.exit(...) }
NoSpecs ==
    /\ pc = "located"
    /\ Len(specs) = 0
    /\ stderr' = Append(stderr, "no-specs")
    /\ exitCode' = Exited(NoSpecsStatus(copy))
    /\ pc' = "exited"
    /\ UNCHANGED <<copy, args, fsys, specs, results, linted, outcome, stdout,
                   violations, report,
                   basename, accepted, reads>>

\* the invocation before this one printed a JSON list of findings
PrintedBefore(o) == o.spawned /\ o.out.kind = "json" /\ o.out.value.array

\* LintAndSummarize with the grouping of the previous call carried over: the
\* findings of the previous invocation are summarized again with those of this
\* one
LintAndSummarizeCarried ==
    /\ pc = "located"
    /\ Len(results) < Len(specs)
    /\ \E o \in Outcomes :
        LET spec == specs[Len(results) + 1]
            got == lintSpec(copy, o)
            before == IF "spawned" \in DOMAIN outcome /\ PrintedBefore(outcome)
                      THEN outcome.out.value.items ELSE <<>>
        IN  /\ outcome' = o
            /\ linted' = Append(linted, spec)
            /\ IF got.thrown \/ ~got.value.array
               THEN /\ stderr' = Append(stderr, "uncaught")
                    /\ exitCode' = Exited(UncaughtStatus)
                    /\ pc' = "exited"
                    /\ UNCHANGED results
               ELSE /\ results' = Append(results,
                                         summarize(copy, spec, before \o got.value.items))
                    /\ UNCHANGED <<stderr, exitCode, pc>>
    /\ UNCHANGED <<copy, args, fsys, specs, stdout, violations, report,
                   basename, accepted, reads>>

\* LintAndSummarize going through specs from its last element to its first
LintAndSummarizeFromLast ==
    /\ pc = "located"
    /\ Len(results) < Len(specs)
    /\ \E o \in Outcomes :
        LET spec == specs[Len(specs) - Len(results)]
            got == lintSpec(copy, o)
        IN  /\ outcome' = o
            /\ linted' = Append(linted, spec)
            /\ IF got.thrown \/ ~got.value.array
               THEN /\ stderr' = Append(stderr, "uncaught")
                    /\ exitCode' = Exited(UncaughtStatus)
                    /\ pc' = "exited"
                    /\ UNCHANGED results
               ELSE /\ results' = Append(results, summarize(copy, spec, got.value.items))
                    /\ UNCHANGED <<stderr, exitCode, pc>>
    /\ UNCHANGED <<copy, args, fsys, specs, stdout, violations, report,
                   basename, accepted, reads>>

\* One call of the callback of specs.map: lintSpec, then summarize.  An error
\* lintSpec throws, or the TypeError of summarize on a value that is no array,
\* is caught nowhere.
LintAndSummarize ==
    /\ pc = "located"
    /\ Len(results) < Len(specs)
    /\ \E o \in Outcomes :
        LET spec == specs[Len(results) + 1]
            got == lintSpec(copy, o)
        IN  /\ outcome' = o
            /\ linted' = Append(linted, spec)
            /\ IF got.thrown \/ ~got.value.array
               THEN /\ stderr' = Append(stderr, "uncaught")
                    /\ exitCode' = Exited(UncaughtStatus)
                    /\ pc' = "exited"
                    /\ UNCHANGED results
               ELSE /\ results' = Append(results, summarize(copy, spec, got.value.items))
                    /\ UNCHANGED <<stderr, exitCode, pc>>
    /\ UNCHANGED <<copy, args, fsys, specs, stdout, violations, report,
                   basename, accepted, reads>>

\* const allPass = ...; console.log(...); process.exit(allPass ? 0 : 1)
Emit ==
    /\ pc = "located"
    /\ Len(specs) > 0
    /\ Len(results) = Len(specs)
    /\ stdout' = Append(stdout, Document(results))
    /\ exitCode' = Exited(VerdictStatus(Document(results).allPass))
    /\ pc' = "exited"
    /\ UNCHANGED <<copy, args, fsys, specs, results, linted, outcome, stderr,
                   violations, report,
                   basename, accepted, reads>>

Next == Locate \/ NoSpecs \/ LintAndSummarize \/ Emit

Spec == Init /\ [][Next]_vars

-----------------------------------------------------------------------------
(* summarize alone: specification SpecSummarize *)

SummarizePath == <<"/", "repo", "openapi.yaml">>

InitSummarize ==
    /\ copy \in Copies
    /\ violations \in SummarizeInputs
    /\ report = NoReport
    /\ args = <<>>
    /\ fsys = Tree("none", "none")
    /\ pc = "summarize"
    /\ specs = <<>>
    /\ results = <<>>
    /\ linted = <<>>
    /\ outcome = NoOutcome
    /\ stdout = <<>>
    /\ stderr = <<>>
    /\ exitCode = Running
    /\ basename = ""
    /\ accepted = NoReport
    /\ reads = <<>>

Summarize ==
    /\ pc = "summarize"
    /\ ~report.computed
    /\ report' = [computed |-> TRUE,
                  value |-> summarize(copy, SummarizePath, violations)]
    /\ UNCHANGED <<copy, violations, basename, accepted>>
    /\ UNCHANGED runVars

NextSummarize == Summarize

SpecSummarize == InitSummarize /\ [][NextSummarize]_vars

-----------------------------------------------------------------------------
(* findSpecs alone: specification SpecFind *)

InitFind ==
    /\ copy \in Copies
    /\ fsys \in FindTrees
    /\ pc = "find"
    /\ args = <<>>
    /\ specs = <<>>
    /\ results = <<>>
    /\ linted = <<>>
    /\ outcome = NoOutcome
    /\ stdout = <<>>
    /\ stderr = <<>>
    /\ exitCode = Running
    /\ violations = <<>>
    /\ report = NoReport
    /\ basename = ""
    /\ accepted = NoReport
    /\ reads = <<>>

\* findSpecs(REPO_ROOT) / findSpecs(".") with the default depth
Find ==
    /\ pc = "find"
    /\ specs' = findSpecs(copy, fsys, StartDir(copy), 1, DefaultDepth)
    /\ reads' = findSpecsReads(copy, fsys, StartDir(copy), 1, DefaultDepth)
    /\ pc' = "found"
    /\ UNCHANGED <<copy, args, fsys, results, linted, outcome, stdout, stderr,
                   exitCode, violations, report, basename, accepted>>

NextFind == Find

SpecFind == InitFind /\ [][NextFind]_vars

-----------------------------------------------------------------------------
(* isSpecFile alone: specification SpecIsSpecFile *)

\* File names put together from what stands before `openapi`, the stem and
\* what stands after it.
NamePrefixes == {"", ".", "api.", "quotes.v1.", "my", "api_", "v1.x"}

NameStems == {"openapi", "OpenAPI", "openapi2", "swagger"}

NameSuffixes == {".yaml", ".yml", ".json", ".YAML", ".yaml.bak", ".jsonc", ".yaaml", ""}

FileNames == { p \o m \o x : p \in NamePrefixes, m \in NameStems, x \in NameSuffixes }

InitIsSpecFile ==
    /\ copy \in Copies
    /\ basename \in FileNames
    /\ accepted = NoReport
    /\ reads = <<>>
    /\ pc = "isSpecFile"
    /\ args = <<>>
    /\ fsys = Tree("none", "none")
    /\ specs = <<>>
    /\ results = <<>>
    /\ linted = <<>>
    /\ outcome = NoOutcome
    /\ stdout = <<>>
    /\ stderr = <<>>
    /\ exitCode = Running
    /\ violations = <<>>
    /\ report = NoReport

IsSpecFile ==
    /\ pc = "isSpecFile"
    /\ ~accepted.computed
    /\ accepted' = [computed |-> TRUE, value |-> isSpecFile(basename)]
    /\ UNCHANGED <<copy, basename, violations, report>>
    /\ UNCHANGED runVars

NextIsSpecFile == IsSpecFile

SpecIsSpecFile == InitIsSpecFile /\ [][NextIsSpecFile]_vars

-----------------------------------------------------------------------------
(* Properties of a run (specification Spec) *)

\* the run has ended without explicit paths and without discovered specs
EndedWithoutSpecs == pc = "exited" /\ Len(args) = 0 /\ Len(specs) = 0

\* the latest invocation of the linter
Invoked == Len(linted) > 0

\* the latest invocation produced a FileReport
LatestSummarized == Invoked /\ Len(results) = Len(linted)

LatestReport == results[Len(results)]

\* the latest invocation failed with no captured standard output
NoCapturedOutput(o) == ~o.spawned \/ (o.status # 0 /\ o.out.kind = "empty")

\* the latest invocation printed a JSON list of findings
PrintedList(o) == o.spawned /\ o.out.kind = "json" /\ o.out.value.array

\* no usable output: not started, nothing printed, or text that is no JSON
NoUsableOutput(o) == ~o.spawned \/ o.out.kind \in {"empty", "text"}

C2_InvocationErrorAborts ==
    (Invoked /\ NoCapturedOutput(outcome)) =>
        /\ pc = "exited"
        /\ exitCode.exited
        /\ exitCode.status # 0
        /\ stdout = <<>>

\* C3: lintSpec returns the parsed finding list whenever the standard output
\* of the subprocess was captured and parses as a list of findings, with exit
\* status 0 and with a nonzero exit status alike: the invocation is followed by
\* the FileReport of exactly those findings, never by a failure.
C3_ParseableOutputReturned ==
    (Invoked /\ PrintedList(outcome)) =>
        /\ LatestSummarized
        /\ stderr = <<>>
        /\ LatestReport.counts.total = Len(outcome.out.value.items)
        /\ LatestReport.pass =
             (\A i \in 1..Len(outcome.out.value.items) :
                 outcome.out.value.items[i].severity # 0)

C3_Witness ==
    /\ Invoked
    /\ PrintedList(outcome)
    /\ outcome.status # 0
    /\ LatestSummarized
    /\ LatestReport.counts.total = 2

\* C4: for every subprocess outcome in which no usable output was captured
\* (not started, empty standard output, unparseable standard output), with a
\* zero or a nonzero exit status, lintSpec raises an error that aborts the run;
\* a FileReport with pass = true and total = 0 is produced only when the linter
\* actually printed an empty list.  (Stated of copy 2, whose catch block
\* rethrows; the catch block of copy 1 returns [] in every such case.)
C4_NoUsableOutputAborts ==
    copy = 2 =>
        /\ (Invoked /\ NoUsableOutput(outcome)) =>
              (pc = "exited" /\ Len(results) < Len(linted) /\ stdout = <<>>)
        /\ (LatestSummarized /\ LatestReport.pass /\ LatestReport.counts.total = 0) =>
              (PrintedList(outcome) /\ outcome.out.value.items = <<>>)

\* C6: in every emitted report, allPass is the conjunction of pass over all
\* FileReports of results: false if any linted file has a severity-0 finding,
\* true if none has.
C6_AllPassIsConjunction ==
    \A k \in 1..Len(stdout) :
        /\ stdout[k].allPass =
             (\A i \in 1..Len(stdout[k].results) : stdout[k].results[i].pass)
        /\ stdout[k].allPass =
             (\A i \in 1..Len(stdout[k].results) :
                 stdout[k].results[i].counts.errors = 0)

C6_Witness ==
    /\ Len(stdout) = 1
    /\ Len(stdout[1].results) = 2
    /\ stdout[1].results[1].pass
    /\ ~stdout[1].results[2].pass
    /\ ~stdout[1].allPass

\* C7: whenever a report is emitted, the process exit status is 0 if and only
\* if the emitted allPass is true, and is exactly 1 otherwise.
C7_ExitStatusFollowsVerdict ==
    \A k \in 1..Len(stdout) :
        /\ exitCode.exited
        /\ stdout[k].allPass => exitCode.status = 0
        /\ ~stdout[k].allPass => exitCode.status = 1

C7_Witness ==
    /\ Len(stdout) = 1
    /\ ~stdout[1].allPass
    /\ exitCode = Exited(1)

\* what resolve(REPO_ROOT, a) is for the arguments of ArgPool
AgainstToolRoot(a) ==
    CASE a = <<"openapi.yaml">> -> <<"/", "repo", "openapi.yaml">>
      [] a = <<"specs", "..", "quotes.openapi.json">> ->
             <<"/", "repo", "quotes.openapi.json">>
      [] a = <<"/", "tmp", "petstore.yaml">> -> <<"/", "tmp", "petstore.yaml">>

\* C13: when one or more explicit path arguments are given, no directory
\* traversal is performed: the specs handed to the linter and reported on are
\* exactly the arguments, each resolved against the tool root, in order; no
\* other file of the tree is linted or appears in results.
C13_ExplicitPathsOnly ==
    (pc # "start" /\ Len(args) > 0) =>
        /\ specs = [i \in 1..Len(args) |-> AgainstToolRoot(args[i])]
        /\ \A i \in 1..Len(linted) : linted[i] = AgainstToolRoot(args[i])
        /\ \A i \in 1..Len(results) : results[i].spec = AgainstToolRoot(args[i])

\* C14: in every emitted report, results has exactly one FileReport per entry
\* of the spec list (duplicates included), in the order of the list, and the
\* spec field of the i-th FileReport is the i-th spec path.
C14_OneReportPerSpec ==
    \A k \in 1..Len(stdout) :
        /\ Len(stdout[k].results) = Len(specs)
        /\ \A i \in 1..Len(specs) : stdout[k].results[i].spec = specs[i]

C14_Witness ==
    /\ Len(stdout) = 1
    /\ Len(args) = 2
    /\ args[1] = args[2]
    /\ Len(stdout[1].results) = 2
    /\ stdout[1].results[1].spec = stdout[1].results[2].spec

\* C15: when the spec list is empty, the run writes a diagnostic to the error
\* channel, never invokes the linter, and ends with exit status 0.
C15_NoSpecsIsSuccess ==
    (pc = "exited" /\ Len(specs) = 0) =>
        /\ stderr = <<"no-specs">>
        /\ linted = <<>>
        /\ exitCode = Exited(0)

\* C16: the only thing ever written to standard output in a run is the single
\* {allPass, results} document, written at most once, at the end of a run
\* that linted every spec of a non-empty list; a run that wrote a diagnostic
\* (no specs, or a failure) to the error channel writes nothing to standard
\* output.
C16_StdoutIsOneDocument ==
    /\ Len(stdout) <= 1
    /\ stderr # <<>> => stdout = <<>>
    /\ stdout # <<>> =>
          /\ pc = "exited"
          /\ Len(specs) > 0
          /\ Len(linted) = Len(specs)
          /\ DOMAIN stdout[1] = {"allPass", "results"}

C16_Witness ==
    /\ Len(stdout) = 1
    /\ stderr = <<>>
    /\ Len(stdout[1].results) = 2
    /\ exitCode = Exited(0)

\* the latest invocation failed: the linter could not be started, or it ended
\* with an error and printed nothing that parses
InvocationFailed(o) ==
    \/ ~o.spawned
    \/ o.status # 0 /\ o.out.kind \in {"empty", "text"}

\* C19: if linting the k-th spec of the list fails, the run aborts there: from
\* then on no further spec is passed to the linter and nothing is written to
\* standard output.
C19_FailureAbortsRun ==
    [][(Invoked /\ InvocationFailed(outcome)) =>
           (linted' = linted /\ stdout = <<>> /\ stdout' = <<>>)]_vars

\* a report has been written and its last FileReport is that of the list of
\* findings the latest invocation printed
EmittedLatest == Len(stdout) = 1 /\ PrintedList(outcome)

LatestEmitted == stdout[1].results[Len(stdout[1].results)]

LatestItems == outcome.out.value.items

\* the k-th finding of a rule in the list the latest invocation printed
NthItemOf(rule, k) ==
    LET of == { p \in 1..Len(LatestItems) : LatestItems[p].code = rule }
    IN  LatestItems[CHOOSE p \in of : Cardinality({ q \in of : q <= p }) = k]

\* C24: the line of a location is a 1-based line number: the finding's
\* range.start.line plus one when the linter supplied a numeric line (a linter
\* line of 0 is reported as 1), and null when the finding has no range, no
\* start or no numeric line.
C24_LineIsOneBased ==
    EmittedLatest =>
        \A g \in 1..Len(LatestEmitted.ruleBreakdown) :
            LET group == LatestEmitted.ruleBreakdown[g]
            IN  \A k \in 1..Len(group.locations) :
                    LET v == NthItemOf(group.rule, k)
                    IN  IF v.line.type = "number"
                        THEN group.locations[k].line = [type |-> "number",
                                                        value |-> v.line.value + 1]
                        ELSE group.locations[k].line = [type |-> "null"]

C24_Witness ==
    /\ EmittedLatest
    /\ copy = 1
    /\ \E p \in 1..Len(LatestItems) : LatestItems[p].line = [type |-> "undefined"]
    /\ \E p \in 1..Len(LatestItems) : LatestItems[p].line = [type |-> "number", value |-> 0]
    /\ \E g \in 1..Len(LatestEmitted.ruleBreakdown) :
          LatestEmitted.ruleBreakdown[g].locations[1].line = [type |-> "null"]
    /\ \E g \in 1..Len(LatestEmitted.ruleBreakdown) :
          LatestEmitted.ruleBreakdown[g].locations[1].line = [type |-> "number", value |-> 1]

\* C25: the severity label of every RuleGroup in the emitted report is one of
\* error, warning, info, hint, obtained from the numeric severity of the group
\* by 0 -> error, 1 -> warning, 2 -> info, 3 -> hint.
C25_LabelFollowsSeverity ==
    EmittedLatest =>
        \A g \in 1..Len(LatestEmitted.ruleBreakdown) :
            LET group == LatestEmitted.ruleBreakdown[g]
                numeric == NthItemOf(group.rule, 1).severity
            IN  /\ group.severity \in {"error", "warning", "info", "hint"}
                /\ numeric = 0 => group.severity = "error"
                /\ numeric = 1 => group.severity = "warning"
                /\ numeric = 2 => group.severity = "info"
                /\ numeric = 3 => group.severity = "hint"

\* C26: in a run where no lint invocation fails, the linter is invoked exactly
\* once for each entry of the spec list, in list order, one invocation at a
\* time (an invocation starts only when every spec before it has been linted
\* and summarized), and the report is written only after the last spec has been
\* summarized.
C26_OneInvocationPerSpecInOrder ==
    /\ [](/\ Len(linted) <= Len(specs)
          /\ \A i \in 1..Len(linted) : linted[i] = specs[i]
          /\ stderr = <<>> => Len(results) = Len(linted)
          /\ stdout # <<>> => (Len(linted) = Len(specs) /\ Len(results) = Len(specs)))
    /\ [][linted' # linted =>
             /\ Len(linted') = Len(linted) + 1
             /\ Len(results) = Len(linted)
             /\ stdout = <<>>
             /\ stdout' = <<>>]_vars

C26_Witness ==
    /\ Len(stdout) = 1
    /\ stderr = <<>>
    /\ Len(specs) = 2
    /\ specs[1] # specs[2]
    /\ linted = specs

\* C29: the FileReport of one spec depends only on that spec's path and its
\* own findings: whatever was linted before, the FileReport of the latest
\* invocation is the summary of its spec and of its own findings alone, and
\* no later step changes a FileReport already computed.
C29_ReportOfOwnFindingsOnly ==
    /\ [](LatestSummarized =>
            LatestReport = summarize(copy, specs[Len(results)],
                                     IF PrintedList(outcome) THEN LatestItems ELSE <<>>))
    /\ [][/\ Len(results') >= Len(results)
          /\ \A i \in 1..Len(results) : results'[i] = results[i]]_vars

C29_Witness ==
    /\ LatestSummarized
    /\ PrintedList(outcome)
    /\ Len(results) = 2
    /\ results[1].spec = results[2].spec
    /\ results[1].counts.total = 2
    /\ results[2].counts.total = 1
    /\ Len(results[2].ruleBreakdown) = 1

-----------------------------------------------------------------------------
(* Properties of findSpecs (specification SpecFind) *)

\* a name the traversal does not skip
Visible(name) == SubSeq(name, 1, 1) # "." /\ name # "node_modules"

\* the visible entries of a readable directory
VisibleEntries(fs, node) ==
    IF fs[node].readable
    THEN { i \in 1..Len(fs[node].entries) : Visible(fs[node].entries[i].name) }
    ELSE {}

\* the directories <<path, node>> that lie k levels below the start directory
\* and are reached through readable directories and visible names
RECURSIVE DirsAt(_, _, _)
DirsAt(c, fs, k) ==
    IF k = 0 THEN {<<StartDir(c), 1>>}
    ELSE UNION { { <<Append(d[1], fs[d[2]].entries[i].name), fs[d[2]].entries[i].node>> :
                     i \in { i \in VisibleEntries(fs, d[2]) :
                                fs[fs[d[2]].entries[i].node].kind = "dir" } } :
                 d \in DirsAt(c, fs, k - 1) }

\* the candidates of the first three levels that can be reached
Candidates(c, fs) ==
    UNION { { Append(d[1], fs[d[2]].entries[i].name) :
                i \in { i \in VisibleEntries(fs, d[2]) :
                           /\ fs[fs[d[2]].entries[i].node].kind = "file"
                           /\ isSpecFile(fs[d[2]].entries[i].name) } } :
            d \in UNION { DirsAt(c, fs, k) : k \in 0..2 } }

Found == { specs[i] : i \in 1..Len(specs) }

\* C17: discovery never raises: whatever directories cannot be read and
\* whatever entries cannot be stat'ed, findSpecs treats each of them as empty
\* and returns every candidate reachable through readable directories, the
\* siblings of an unreadable entry included.
C17_UnreadableTreatedAsEmpty ==
    pc = "found" => Found = Candidates(copy, fsys)

\* C20: discovery never returns a path that has a component below the root
\* whose name begins with '.' or is exactly node_modules, even when the name
\* itself matches a spec pattern.
C20_NoHiddenOrDependencyComponent ==
    pc = "found" =>
        \A i \in 1..Len(specs) :
            \A j \in (Len(StartDir(copy)) + 1)..Len(specs[i]) :
                /\ SubSeq(specs[i][j], 1, 1) # "."
                /\ specs[i][j] # "node_modules"

C20_Witness ==
    /\ pc = "found"
    /\ Len(specs) = 3
    /\ \E i \in 1..Len(fsys[1].entries) :
          /\ fsys[1].entries[i].name = ".openapi.yaml"
          /\ fsys[fsys[1].entries[i].node].kind = "file"
    /\ \E i \in 1..Len(fsys[5].entries) : fsys[5].entries[i].name = "node_modules"

\* how many levels below the start directory a path lies
Level(path) == Len(path) - Len(StartDir(copy))

Read == { reads[i] : i \in 1..Len(reads) }

\* C21: with the default depth 3, findSpecs reads the root, its child
\* directories and its grandchild directories only: every directory read lies
\* at most two levels below the root (a directory reached with remaining
\* depth 0 is never read), every file returned lies directly in a directory
\* that was read, and so at most three levels below the root.
C21_ThreeLevelsOnly ==
    pc = "found" =>
        /\ \A i \in 1..Len(reads) : Level(reads[i]) \in 0..2
        /\ \A i \in 1..Len(specs) :
              /\ Level(specs[i]) \in 1..3
              /\ SubSeq(specs[i], 1, Len(specs[i]) - 1) \in Read

C21_Witness ==
    /\ pc = "found"
    /\ \E i \in 1..Len(specs) : Level(specs[i]) = 3
    /\ \E i \in 1..Len(reads) : Level(reads[i]) = 2
    /\ fsys[10].readable
    /\ fsys[12].kind = "dir"
    /\ fsys[12].readable
    /\ isSpecFile(fsys[12].entries[1].name)

\* the directories of the first three levels: those a traversal of depth 3
\* can call readdirSync on
DirsWithinDepth == UNION { DirsAt(copy, fsys, k) : k \in 0..2 }

\* C30: discovery terminates on every finite directory graph, graphs with
\* cycles included: when findSpecs from the root has returned it has read no
\* directory path twice and no more directories than there are directory
\* paths in the first three levels, however the links of the graph run.
C30_BoundedReads ==
    pc = "found" =>
        /\ Cardinality(Read) = Len(reads)
        /\ Len(reads) <= Cardinality(DirsWithinDepth)

C30_Witness ==
    /\ pc = "found"
    /\ \E i \in 1..Len(fsys[1].entries) :
          fsys[1].entries[i].name = "self" /\ fsys[1].entries[i].node = 1
    /\ \E i \in 1..Len(fsys[1].entries) : fsys[1].entries[i].name = "docs"
    /\ fsys[5].readable
    /\ \E i \in 1..Len(reads) : Level(reads[i]) = 2 /\ reads[i][Len(reads[i])] = "self"
    /\ \E i \in 1..Len(reads) : Level(reads[i]) = 2 /\ reads[i][Len(reads[i])] = "docs"
    /\ Len(reads) = Cardinality(DirsWithinDepth)

-----------------------------------------------------------------------------
(* Properties of isSpecFile (specification SpecIsSpecFile) *)

\* the names of FileNames that end with `.openapi` and one of the suffixes, or
\* are exactly `openapi` and one of the suffixes
NamedOpenapi(suffixes) ==
    { p \o "openapi" \o x : p \in {"", ".", "api.", "quotes.v1."}, x \in suffixes }

\* C18 as stated: isSpecFile accepts a filename exactly when it ends with
\* .openapi.yaml, ends with .openapi.json, is exactly openapi.yaml, or is
\* exactly openapi.json (case-sensitive); every other filename is rejected.
C18_AcceptsYamlAndJson ==
    accepted.computed =>
        (accepted.value = (basename \in NamedOpenapi({".yaml", ".json"})))

\* C18 as amended: isSpecFile accepts a filename exactly when it ends with
\* .openapi.yaml, .openapi.yml or .openapi.json, or is exactly openapi.yaml,
\* openapi.yml or openapi.json (case-sensitive); every other filename is
\* rejected.
C18_AcceptsYamlYmlAndJson ==
    accepted.computed =>
        (accepted.value = (basename \in NamedOpenapi({".yaml", ".yml", ".json"})))

C18_Witness ==
    /\ accepted.computed
    /\ accepted.value
    /\ basename = "api.openapi.yml"

-----------------------------------------------------------------------------
(* Properties of summarize (specification SpecSummarize) *)

Rules == { violations[i].code : i \in 1..Len(violations) }

\* the findings of a rule, by position
FindingsOf(rule) == { i \in 1..Len(violations) : violations[i].code = rule }

FirstOf(rule) == CHOOSE i \in FindingsOf(rule) : \A j \in FindingsOf(rule) : i <= j

Breakdown == report.value.ruleBreakdown

GroupsOf(rule) == { i \in 1..Len(Breakdown) : Breakdown[i].rule = rule }

\* the numeric severity a group was given: that of the first finding of its rule
GroupSeverity(i) == violations[FirstOf(Breakdown[i].rule)].severity

\* C5: for every finding sequence, summarize sets pass = true exactly when no
\* finding has severity 0; findings of severity 1, 2 or 3 never change pass.
C5_PassIffNoError ==
    report.computed =>
        (report.value.pass = (\A i \in 1..Len(violations) : violations[i].severity # 0))

C5_Witness ==
    /\ report.computed
    /\ report.value.pass
    /\ \A s \in 1..3 : \E i \in 1..Len(violations) : violations[i].severity = s

\* C8: for every finding sequence and every rule identifier occurring in it,
\* the count of that rule's RuleGroup in ruleBreakdown equals the number of
\* findings in the sequence carrying that rule identifier.
C8_CountIsGroupSize ==
    report.computed =>
        \A rule \in Rules :
            /\ GroupsOf(rule) # {}
            /\ \A i \in GroupsOf(rule) : Breakdown[i].count = Cardinality(FindingsOf(rule))

C8_Witness ==
    /\ report.computed
    /\ Cardinality(Rules) = 3
    /\ \E rule \in Rules : Cardinality(FindingsOf(rule)) = 2

\* C9: every RuleGroup has at most 5 locations; when the group has more than 5
\* findings its truncated field is the text "N more" with N = group size - 5,
\* and when it has 5 or fewer the truncated field is absent.
C9_LocationsCapped ==
    report.computed =>
        \A i \in 1..Len(Breakdown) :
            LET size == Cardinality(FindingsOf(Breakdown[i].rule))
            IN  /\ Len(Breakdown[i].locations) <= 5
                /\ size > 5 =>
                     /\ "truncated" \in DOMAIN Breakdown[i]
                     /\ Breakdown[i].truncated = ToString(size - 5) \o " more"
                /\ size <= 5 => "truncated" \notin DOMAIN Breakdown[i]

C9_Witness ==
    /\ report.computed
    /\ \E i \in 1..Len(Breakdown) :
        /\ Cardinality(FindingsOf(Breakdown[i].rule)) = 7
        /\ Len(Breakdown[i].locations) = 5
        /\ "truncated" \in DOMAIN Breakdown[i]
        /\ Breakdown[i].truncated = "2 more"

\* C10: ruleBreakdown is ordered so that all groups of severity 0 come before
\* all groups of severity 1, those before severity 2, those before severity 3,
\* and among adjacent groups of equal severity the count never increases.
C10_SortedBySeverityThenCount ==
    report.computed =>
        \A i \in 1..Len(Breakdown) - 1 :
            /\ GroupSeverity(i) <= GroupSeverity(i + 1)
            /\ GroupSeverity(i) = GroupSeverity(i + 1) =>
                 Breakdown[i].count >= Breakdown[i + 1].count

C10_Witness ==
    /\ report.computed
    /\ Len(Breakdown) = 3
    /\ GroupSeverity(1) = 0
    /\ GroupSeverity(2) = 1
    /\ GroupSeverity(3) = 1
    /\ Breakdown[2].count > Breakdown[3].count
    /\ FirstOf(Breakdown[3].rule) < FirstOf(Breakdown[2].rule)
    /\ FirstOf(Breakdown[2].rule) < FirstOf(Breakdown[1].rule)

\* C11: for any two rules whose groups have the same severity and the same
\* count, the group of the rule whose first finding appears earlier in the
\* finding sequence is placed earlier in ruleBreakdown, whatever the rule
\* identifiers are (identifiers that look like integers included).
C11_TiesKeepFirstEncounterOrder ==
    report.computed =>
        \A i, j \in 1..Len(Breakdown) :
            (/\ GroupSeverity(i) = GroupSeverity(j)
             /\ Breakdown[i].count = Breakdown[j].count
             /\ FirstOf(Breakdown[i].rule) < FirstOf(Breakdown[j].rule))
            => i < j

\* the number of findings of a severity
NumberOfSeverity(s) == Cardinality({ i \in 1..Len(violations) : violations[i].severity = s })

\* C12: for every finding sequence, counts.errors is the number of findings of
\* severity 0, counts.warnings the number of severity 1, and counts.total the
\* length of the sequence; severities 2 and 3 are counted in total only.
C12_CountsBySeverity ==
    report.computed =>
        /\ report.value.counts.errors = NumberOfSeverity(0)
        /\ report.value.counts.warnings = NumberOfSeverity(1)
        /\ report.value.counts.total = Len(violations)

C12_Witness ==
    /\ report.computed
    /\ report.value.counts = [errors |-> 1, warnings |-> 1, total |-> 4]
    /\ NumberOfSeverity(2) = 1
    /\ NumberOfSeverity(3) = 1

\* the name of a numeric severity
SeverityName(severity) ==
    CASE severity = 0 -> "error"
      [] severity = 1 -> "warning"
      [] severity = 2 -> "info"
      [] severity = 3 -> "hint"

\* C22: the severity of each RuleGroup is the severity of the first finding of
\* that rule in the finding sequence, whatever the severities of the later
\* findings of the rule are.
C22_SeverityOfFirstFinding ==
    report.computed =>
        \A i \in 1..Len(Breakdown) :
            Breakdown[i].severity =
                SeverityName(violations[FirstOf(Breakdown[i].rule)].severity)

\* the position of the k-th finding of a rule
NthOf(rule, k) ==
    CHOOSE p \in FindingsOf(rule) :
        Cardinality({ q \in FindingsOf(rule) : q <= p }) = k

\* the segments of the paths of FindingPool, joined with "."
JoinedPath(path) ==
    CASE path = <<"paths", "/quotes", "get">> -> "paths./quotes.get"
      [] path = <<"paths", "/quotes", "post">> -> "paths./quotes.post"
      [] path = <<"paths", "/vehicles">> -> "paths./vehicles"
      [] path = <<>> -> ""
      [] path = <<"info">> -> "info"
      [] path = <<"components", "schemas", "Quote">> -> "components.schemas.Quote"

\* C23: the locations of a RuleGroup are exactly the first min(5, group size)
\* findings of that rule, in the order they occur in the finding sequence,
\* each with that finding's joined path and its message.
C23_LocationsAreFirstFindings ==
    report.computed =>
        \A i \in 1..Len(Breakdown) :
            LET rule == Breakdown[i].rule
                size == Cardinality(FindingsOf(rule))
                shown == IF size < 5 THEN size ELSE 5
            IN  /\ Len(Breakdown[i].locations) = shown
                /\ \A k \in 1..shown :
                      /\ Breakdown[i].locations[k].path =
                             JoinedPath(violations[NthOf(rule, k)].path)
                      /\ Breakdown[i].locations[k].message =
                             violations[NthOf(rule, k)].message

C23_Witness ==
    /\ report.computed
    /\ \E i \in 1..Len(Breakdown) :
          /\ Breakdown[i].rule = "operation-tags"
          /\ Cardinality(FindingsOf("operation-tags")) = 6
          /\ violations[NthOf("operation-tags", 1)].path = <<"paths", "/quotes", "post">>
          /\ violations[NthOf("operation-tags", 2)].path = <<"paths", "/vehicles">>
          /\ violations[NthOf("operation-tags", 6)].path = <<"paths", "/vehicles">>
          /\ Breakdown[i].locations[1].path = "paths./quotes.post"
          /\ Breakdown[i].locations[5].path = "paths./quotes.post"

\* the sum of count over the groups of ruleBreakdown, from group i on, that
\* carry one of the labels
RECURSIVE SumOfCounts(_, _)
SumOfCounts(i, labels) ==
    IF i > Len(Breakdown) THEN 0
    ELSE (IF Breakdown[i].severity \in labels THEN Breakdown[i].count ELSE 0)
         + SumOfCounts(i + 1, labels)

AnyLabel == {"error", "warning", "info", "hint", "unknown"}

ErrorGroup(g) == g.severity = "error"

\* C27: in every FileReport, each distinct rule identifier of the finding
\* sequence appears in exactly one RuleGroup, every RuleGroup has count >= 1
\* and is the group of a rule of the sequence, and counts.total equals the sum
\* of count over all RuleGroups of ruleBreakdown.
C27_GroupsPartitionFindings ==
    report.computed =>
        /\ \A rule \in Rules : Cardinality(GroupsOf(rule)) = 1
        /\ \A i \in 1..Len(Breakdown) :
              Breakdown[i].count >= 1 /\ Breakdown[i].rule \in Rules
        /\ report.value.counts.total = SumOfCounts(1, AnyLabel)

C27_Witness ==
    /\ report.computed
    /\ Len(Breakdown) = 2
    /\ Breakdown[1].count = 4
    /\ Breakdown[2].count = 3
    /\ report.value.counts.total = 7

\* the report says of errors what its groups say
SelfConsistent ==
    /\ report.value.counts.errors = SumOfCounts(1, {"error"})
    /\ report.value.pass = ~(\E i \in 1..Len(Breakdown) : ErrorGroup(Breakdown[i]))

\* every rule of the sequence occurs with one severity only
UniformSeverity ==
    \A i, j \in 1..Len(violations) :
        violations[i].code = violations[j].code =>
            violations[i].severity = violations[j].severity

\* C28 as stated: for every finding sequence, including one in which the same
\* rule occurs with different severities, the FileReport is self-consistent:
\* counts.errors equals the sum of count over the RuleGroups labelled error,
\* and pass is false exactly when ruleBreakdown contains a group labelled
\* error.
C28_SelfConsistent ==
    report.computed => SelfConsistent

\* C28 as amended: for every finding sequence in which each rule occurs with
\* one severity only, counts.errors equals the sum of count over the
\* RuleGroups labelled error, and pass is false exactly when ruleBreakdown
\* contains a group labelled error.
C28_SelfConsistentWhenUniform ==
    (report.computed /\ UniformSeverity) => SelfConsistent

C28_Witness ==
    /\ report.computed
    /\ UniformSeverity
    /\ report.value.counts.errors = 3
    /\ ~report.value.pass
    /\ Cardinality({ i \in 1..Len(Breakdown) : ErrorGroup(Breakdown[i]) }) = 1
    /\ Len(Breakdown) = 2

=============================================================================
